---- MODULE Spec2Model ----
(***************************************************************************)
(* Model of markis/budget-importer: the pipeline of budget.main.main       *)
(* (lookup table -> receipts -> bank transactions -> attach_receipts ->    *)
(* categorize_transactions -> insert_records_to_google_sheet) and the      *)
(* start-up validation of budget.main.Args.                                *)
(*                                                                         *)
(* Encoding of Python values:                                              *)
(*   - an optional string (category, name) is a string, None being the     *)
(*     value None below; "" is the empty string, which Python's truth test *)
(*     treats like None;                                                   *)
(*   - an optional number or object (Document.total, transaction.receipt)  *)
(*     is <<>> for None and <<v>> for the value v;                         *)
(*   - a Decimal amount is an integer number of cents;                     *)
(*   - a date is a day number, a datetime a number of seconds (UTC).       *)
(***************************************************************************)
EXTENDS Integers, Sequences, FiniteSets, TLC

VARIABLES
    pc,            \* "start", the step of main to perform next, or how the run ended
    run,           \* number of the current invocation of cli.run
    prevDone,      \* TRUE iff the previous invocation reached the end of main
    cliArgs,       \* truthiness of each credential handed to Args(...)
    errors,        \* the errors list of Args.__post_init__
    exception,     \* the exception cli.run caught and logged ("" if none)
    clients,       \* the clients main has constructed in this run
    steps,         \* the steps of main performed in this run, in order
    lookupSheet,   \* rows of the lookup worksheet (remote)
    destSheet,     \* rows of the destination worksheet (remote)
    paperless,     \* pages of raw receipt records held by the receipt service
    bank,          \* the raw response of the bank feed
    mapping,       \* main: mapping returned by get_category_mapping
    documents,     \* main: documents returned by fetch_documents
    accounts,      \* main: accounts returned by fetch_data
    transactions,  \* main: list returned by attach_receipts
    records        \* records handed to ws.append_rows in this run

vars == <<pc, run, prevDone, cliArgs, errors, exception, clients, steps, lookupSheet,
          destSheet, paperless, bank, mapping, documents, accounts, transactions, records>>

\* what the run keeps across its steps besides pc and steps
remote == <<lookupSheet, destSheet, paperless, bank>>
process == <<run, prevDone, cliArgs, errors, exception, clients>>

----------------------------------------------------------------------------
(* Bounds of the model *)

\* total number of records (receipts + bank transactions) held upstream
MaxRecords == 3
\* number of rows of the lookup worksheet
MaxLookupRows == 2
\* number of rows the destination worksheet holds before the first run
MaxSheetRows == 2
\* number of invocations of cli.run
MaxRuns == 2

(* Program constants *)

\* datetime.date() of a UTC timestamp: seconds per calendar day
SecondsPerDay == 86400
\* CustomField.TOTAL, CustomField.CATEGORY
TOTAL == 1
CATEGORY == 3

----------------------------------------------------------------------------
(* Python values *)

None == "<None>"

\* bool(s) for s : str | None
Truthy(s) == s # None /\ s # ""

\* bool(t) for t : Decimal | None  (Decimal zero is falsy)
TruthyTotal(t) == t # <<>> /\ t[1] # 0

Last(s) == s[Len(s)]
Front(s) == SubSeq(s, 1, Len(s) - 1)

RECURSIVE Flatten(_)
\* the concatenation of a sequence of sequences
Flatten(ss) == IF ss = <<>> THEN <<>> ELSE Head(ss) \o Flatten(Tail(ss))

Map(s, F(_)) == [i \in 1..Len(s) |-> F(s[i])]

RECURSIVE InsertByKey(_, _)
\* insert the pair p = <<key, item>> into the key-sorted sequence s, after
\* every pair whose key is <= p's key (list.sort / sorted are stable)
InsertByKey(p, s) ==
    IF s = <<>> THEN <<p>>
    ELSE IF Last(s)[1] <= p[1] THEN Append(s, p)
    ELSE Append(InsertByKey(p, Front(s)), Last(s))

RECURSIVE SortPairs(_)
\* sorted(pairs, key = first component), stable, ascending
SortPairs(s) == IF s = <<>> THEN <<>> ELSE InsertByKey(Last(s), SortPairs(Front(s)))

\* sorted(s, key=Key): the items of s in ascending key order, stable
Sorted(s, Key(_)) == Map(SortPairs([i \in 1..Len(s) |-> <<Key(s[i]), s[i]>>]), LAMBDA p : p[2])

\* s.sort(key=Key, reverse=True): descending key order, equal keys keep
\* their original relative order
SortedReverse(s, Key(_)) == Sorted(s, LAMBDA x : 0 - Key(x))

----------------------------------------------------------------------------
(* budget.main.main: the calls of the with-block, in program order *)

\* MainSteps with the sheet written before the bank feed is read
MainStepsWritingEarly ==
    <<"get_category_mapping", "fetch_documents", "insert_records_to_google_sheet",
      "fetch_data", "attach_receipts", "categorize_transactions">>

MainSteps ==
    <<"get_category_mapping", "fetch_documents", "fetch_data",
      "attach_receipts", "categorize_transactions", "insert_records_to_google_sheet">>

\* the value of pc once the step named s has returned
After(s) ==
    LET i == CHOOSE k \in 1..Len(MainSteps) : MainSteps[k] = s
    IN  IF i < Len(MainSteps) THEN MainSteps[i + 1] ELSE "done"

----------------------------------------------------------------------------
(* Decimal(...) and str.replace("USD", "") on the amount strings of the model *)

\* Decimal(s) in cents, <<>> when Decimal raises InvalidOperation
Decimal(s) ==
    CASE s = "42.50" -> <<4250>>
      [] s = "-42.50" -> <<-4250>>
      [] s = "0.00" -> <<0>>
      [] s = "-1.00" -> <<-100>>
      [] OTHER -> <<>>

\* s.replace("USD", "")
ReplaceUSD(s) ==
    CASE s = "USD42.50" -> "42.50"
      [] s = "USD0.00" -> "0.00"
      [] OTHER -> s

----------------------------------------------------------------------------
(* budget.models.paperless.Document.from_dict *)

\* next((field for field in custom_fields if field["field"] == id), None)
FirstField(custom_fields, id) ==
    LET found == SelectSeq(custom_fields, LAMBDA f : f.field = id)
    IN  IF found = <<>> THEN <<>> ELSE <<found[1]>>

\* the exception Document.from_dict raises on data, "" if it returns
DocumentError(data) ==
    LET total_field == FirstField(data.custom_fields, TOTAL) IN
    IF data.created_date = <<>> THEN "ValueError"
    ELSE IF total_field # <<>> /\ Decimal(ReplaceUSD(total_field[1].value)) = <<>>
         THEN "InvalidOperation"
    ELSE ""

DocumentFromDict(data) ==
    LET total_field == FirstField(data.custom_fields, TOTAL)
        category_field == FirstField(data.custom_fields, CATEGORY)
    IN  [id |-> data.id,
         date |-> data.created_date[1],
         total |-> IF total_field = <<>> THEN <<>>
                   ELSE <<0 - Decimal(ReplaceUSD(total_field[1].value))[1]>>,
         category |-> IF category_field = <<>> THEN None ELSE category_field[1].value]

----------------------------------------------------------------------------
(* budget.clients.paperless.PaperlessClient.fetch_documents *)

\* the first exception among the outcomes errs ("" for a call that returns)
FirstError(errs) ==
    LET raised == SelectSeq(errs, LAMBDA e : e # "")
    IN  IF raised = <<>> THEN "" ELSE raised[1]

\* the exception _inner_fetch_documents raises on one page that came with
\* status 200: an invalid body, or the first record that fails to parse
PageError(page) ==
    IF ~page.valid THEN "ValueError" ELSE FirstError(Map(page.results, DocumentError))

\* the exception the payloads of the pages force, following the next links
DocumentsError(pages) == FirstError(Map(pages, PageError))

\* list(self._inner_fetch_documents(...)) when every page is served and parses
FetchedDocuments(pages) ==
    Map(Flatten(Map(pages, LAMBDA page : page.results)), DocumentFromDict)

----------------------------------------------------------------------------
(* budget.models.simplefin: SimpleFinTransaction.from_dict, fetch_data *)

TransactionError(transaction) ==
    IF Decimal(transaction.amount) = <<>> THEN "InvalidOperation" ELSE ""

TransactionFromDict(transaction) ==
    [id |-> transaction.id,
     amount |-> Decimal(transaction.amount)[1],
     payee |-> transaction.payee,
     transacted_at |-> transaction.transacted_at,
     category |-> None,
     receipt |-> <<>>]

\* the exception the bank response forces: is_simplefin_response fails, or a
\* transaction fails to parse
DataError(data) ==
    IF ~data.valid THEN "ValueError"
    ELSE FirstError(Map(Flatten(data.accounts), TransactionError))

\* SimpleFinResponse.from_dict(data).accounts
FetchedAccounts(data) ==
    Map(data.accounts, LAMBDA account : Map(account, TransactionFromDict))

----------------------------------------------------------------------------
(* budget.models.google.Category.from_row, GoogleClient.get_category_mapping *)

FromRow(row) ==
    LET checked_row == Tail(row) \o <<None, None>>
    IN  [category |-> checked_row[1], name |-> checked_row[2]]

\* {row[0]: Category.from_row(row) for row in values}: a later row replaces
\* an earlier one with the same key
CategoryMapping(values) ==
    [key \in {values[i][1] : i \in 1..Len(values)} |->
        LET last == CHOOSE i \in 1..Len(values) :
                        /\ values[i][1] = key
                        /\ \A j \in (i + 1)..Len(values) : values[j][1] # key
        IN  FromRow(values[last])]

\* IsListOfStrings as a guard of the type alone: an empty list passes
IsListOfStringsOrEmpty(data) == TRUE

\* is_list_of_strings(data) == bool(data)
IsListOfStrings(data) == data # <<>>

----------------------------------------------------------------------------
(* budget.clients.simplefin.SimpleFinClient.categorize_transactions *)

\* mapping.get(payee, (None, None))
MappingGet(m, payee) ==
    IF payee \in DOMAIN m THEN m[payee] ELSE [category |-> None, name |-> None]

\* CategorizeOne without the test "not transaction.category"
CategorizeOneOverwriting(transaction, m) ==
    LET rule == MappingGet(m, transaction.payee)
    IN  [transaction EXCEPT
            !.category = IF Truthy(rule.category) THEN rule.category ELSE @,
            !.payee = IF Truthy(rule.name) THEN rule.name ELSE @]

\* CategorizeOne with the payee rewritten before the category is looked up
CategorizeOneRenamingFirst(transaction, m) ==
    LET name == MappingGet(m, transaction.payee).name
        payee == IF Truthy(name) THEN name ELSE transaction.payee
        category == MappingGet(m, payee).category
    IN  [transaction EXCEPT
            !.category = IF ~Truthy(transaction.category) /\ Truthy(category)
                         THEN category ELSE @,
            !.payee = payee]

\* the body of the loop, lines 103-107
CategorizeOne(transaction, m) ==
    LET rule == MappingGet(m, transaction.payee)
    IN  [transaction EXCEPT
            !.category = IF ~Truthy(transaction.category) /\ Truthy(rule.category)
                         THEN rule.category ELSE @,
            !.payee = IF Truthy(rule.name) THEN rule.name ELSE @]

----------------------------------------------------------------------------
(* budget.clients.simplefin.SimpleFinClient.attach_receipts *)

\* datetime.date(): the calendar day of a UTC timestamp
DateOf(ts) == ts \div SecondsPerDay

\* the test of line 117 that admits a receipt to grouped_receipts
HasTotal(receipt) == TruthyTotal(receipt.total)

\* GroupedReceipts with every receipt in one bucket, whatever its total
GroupedReceiptsOneBucket(receipts, amount) == SelectSeq(receipts, HasTotal)

\* grouped_receipts.get(amount, []): the receipts admitted to the bucket of
\* amount, in the order they were supplied
GroupedReceipts(receipts, amount) ==
    SelectSeq(receipts, LAMBDA r : HasTotal(r) /\ r.total[1] = amount)

\* the sort key of line 124: transaction.transacted_at.date() - d.date
DateKey(transaction, d) == DateOf(transaction.transacted_at) - d.date

\* next(iter(sorted(documents, key=...)), None)
MatchDocument(transaction, receipts) ==
    LET docs == GroupedReceipts(receipts, transaction.amount)
        ordered == Sorted(docs, LAMBDA d : DateKey(transaction, d))
    IN  IF ordered = <<>> THEN <<>> ELSE <<ordered[1]>>

\* lines 123-126 for one transaction
AttachOne(transaction, receipts) ==
    LET document == MatchDocument(transaction, receipts)
    IN  [transaction EXCEPT
            !.category = IF document # <<>> THEN document[1].category ELSE None,
            !.receipt = document]

\* the key of the final sort, line 129
TransactedAt(t) == t.transacted_at

\* AttachedTransactions without the final sort
AttachedTransactionsUnsorted(accts, receipts) ==
    Map(Flatten(accts), LAMBDA t : AttachOne(t, receipts))

\* the list attach_receipts returns
AttachedTransactions(accts, receipts) ==
    SortedReverse(Map(Flatten(accts), LAMBDA t : AttachOne(t, receipts)), TransactedAt)

AttachReceipts ==
    /\ pc = "attach_receipts"
    /\ transactions' = AttachedTransactions(accounts, documents)
    /\ accounts' = Map(accounts, LAMBDA a : Map(a, LAMBDA t : AttachOne(t, documents)))
    /\ pc' = After(pc)
    /\ steps' = Append(steps, pc)
    /\ UNCHANGED <<process, remote, mapping, documents, records>>

CategorizeTransactions ==
    /\ pc = "categorize_transactions"
    /\ transactions' = Map(transactions, LAMBDA t : CategorizeOne(t, mapping))
    /\ accounts' = Map(accounts, LAMBDA a : Map(a, LAMBDA t : CategorizeOne(t, mapping)))
    /\ pc' = After(pc)
    /\ steps' = Append(steps, pc)
    /\ UNCHANGED <<process, remote, mapping, documents, records>>

----------------------------------------------------------------------------
(* budget.clients.google: convert_to_row, insert_records_to_google_sheet *)

\* Document.__str__
DocumentStr(d) == "https://paperless.markis.network/documents/" \o ToString(d.id) \o "/"

\* the row of a transaction: id, payee, amount (the float of the cents),
\* the day of transacted_at (strftime drops the time of day), category or "",
\* the receipt's URL or ""
ConvertToRow(tran) ==
    <<tran.id,
      tran.payee,
      tran.amount,
      DateOf(tran.transacted_at),
      IF Truthy(tran.category) THEN tran.category ELSE "",
      IF tran.receipt # <<>> THEN DocumentStr(tran.receipt[1]) ELSE "">>

\* CurrentIds reading the second column
CurrentIdsOfPayees(values) == {values[i][2] : i \in 1..Len(values)}

\* {row[0] for row in values}
CurrentIds(values) == {values[i][1] : i \in 1..Len(values)}

\* the records list of line 69
NewRecords(values, trans) ==
    Map(SelectSeq(trans, LAMBDA t : t.id \notin CurrentIds(values)), ConvertToRow)

\* ws.sort((4, "des")): the rows in descending order of their fourth column
SortSheet(rows) == SortedReverse(rows, LAMBDA row : row[4])

----------------------------------------------------------------------------
(* budget.main.Args.__post_init__ *)

Fields ==
    {"simplefin_username", "simplefin_password", "simplefin_access_url",
     "paperless_url", "paperless_token", "google_credentials", "sheets_spreadsheet_id"}

\* PostInit asking for every credential of a group (all instead of any)
PostInitAll(args) ==
    (IF ~(args.simplefin_username /\ args.simplefin_password /\ args.simplefin_access_url)
     THEN <<"SimpleFin credentials are required">> ELSE <<>>)
    \o (IF ~(args.paperless_url /\ args.paperless_token)
        THEN <<"Paperless credentials are required">> ELSE <<>>)
    \o (IF ~(args.google_credentials /\ args.sheets_spreadsheet_id)
        THEN <<"Google credentials are required">> ELSE <<>>)

\* the errors list; args maps each field to the truth value of what was given
PostInit(args) ==
    (IF ~(args.simplefin_username \/ args.simplefin_password \/ args.simplefin_access_url)
     THEN <<"SimpleFin credentials are required">> ELSE <<>>)
    \o (IF ~(args.paperless_url \/ args.paperless_token)
        THEN <<"Paperless credentials are required">> ELSE <<>>)
    \o (IF ~(args.google_credentials \/ args.sheets_spreadsheet_id)
        THEN <<"Google credentials are required">> ELSE <<>>)

----------------------------------------------------------------------------
(* budget.cli.run and budget.main.main, step by step *)

\* a step of main raises e: the with-block is left, run logs the exception
Abort(e) ==
    /\ pc' = "failed"
    /\ exception' = e
    /\ steps' = Append(steps, pc)
    /\ UNCHANGED <<run, prevDone, cliArgs, errors, clients, remote,
                   mapping, documents, accounts, transactions, records>>

\* a step of main returns
Return ==
    /\ pc' = After(pc)
    /\ steps' = Append(steps, pc)
    /\ UNCHANGED <<process, remote>>

\* get_args(): Args(...) raises Args.Error, run logs it and returns
ArgsRejected ==
    /\ pc = "start"
    /\ PostInit(cliArgs) # <<>>
    /\ errors' = PostInit(cliArgs)
    /\ exception' = "Args.Error"
    /\ pc' = "exit"
    /\ UNCHANGED <<run, prevDone, cliArgs, clients, steps, remote,
                   mapping, documents, accounts, transactions, records>>

\* get_args() returns and main enters its with-block: the clients are built
EnterMain ==
    /\ pc = "start"
    /\ PostInit(cliArgs) = <<>>
    /\ clients' = {"paperless", "simplefin", "google"}
    /\ pc' = MainSteps[1]
    /\ UNCHANGED <<run, prevDone, cliArgs, errors, exception, steps, remote,
                   mapping, documents, accounts, transactions, records>>

GetCategoryMapping ==
    /\ pc = "get_category_mapping"
    /\ IsListOfStrings(lookupSheet)
    /\ mapping' = CategoryMapping(lookupSheet)
    /\ Return
    /\ UNCHANGED <<documents, accounts, transactions, records>>

\* the worksheet cannot be read, or the assertion of line 55 fails
GetCategoryMappingFails ==
    /\ pc = "get_category_mapping"
    /\ \E e \in {"APIError"} \cup
                (IF IsListOfStrings(lookupSheet) THEN {} ELSE {"AssertionError"}) :
           Abort(e)

FetchDocuments ==
    /\ pc = "fetch_documents"
    /\ DocumentsError(paperless) = ""
    /\ documents' = FetchedDocuments(paperless)
    /\ Return
    /\ UNCHANGED <<mapping, accounts, transactions, records>>

\* a page comes with a status other than 200, its body is no response dict,
\* or a record fails to parse
FetchDocumentsFails ==
    /\ pc = "fetch_documents"
    /\ \E e \in {"ValueError"} \cup ({DocumentsError(paperless)} \ {""}) : Abort(e)

FetchData ==
    /\ pc = "fetch_data"
    /\ DataError(bank) = ""
    /\ accounts' = FetchedAccounts(bank)
    /\ Return
    /\ UNCHANGED <<mapping, documents, transactions, records>>

\* the status is not 200, the body has no accounts, or a record fails to parse
FetchDataFails ==
    /\ pc = "fetch_data"
    /\ \E e \in {"ValueError"} \cup ({DataError(bank)} \ {""}) : Abort(e)

InsertRecords ==
    /\ pc = "insert_records_to_google_sheet"
    /\ IsListOfStrings(destSheet)
    /\ records' = NewRecords(destSheet, transactions)
    /\ destSheet' = SortSheet(destSheet \o records')
    /\ pc' = After(pc)
    /\ steps' = Append(steps, pc)
    /\ UNCHANGED <<process, lookupSheet, paperless, bank,
                   mapping, documents, accounts, transactions>>

\* the worksheet cannot be read, the assertion of line 67 fails, or the
\* append is refused
InsertRecordsFails ==
    /\ pc = "insert_records_to_google_sheet"
    /\ \E e \in {"APIError"} \cup
                (IF IsListOfStrings(destSheet) THEN {} ELSE {"AssertionError"}) :
           Abort(e)

\* the program is started again on the same remote data
Rerun ==
    /\ pc \in {"done", "failed", "exit"}
    /\ run < MaxRuns
    /\ run' = run + 1
    /\ prevDone' = (pc = "done")
    /\ pc' = "start"
    /\ errors' = <<>> /\ exception' = "" /\ clients' = {} /\ steps' = <<>>
    /\ mapping' = [key \in {} |-> None]
    /\ documents' = <<>> /\ accounts' = <<>> /\ transactions' = <<>> /\ records' = <<>>
    /\ UNCHANGED <<cliArgs, remote>>

Next ==
    \/ ArgsRejected
    \/ EnterMain
    \/ GetCategoryMapping
    \/ GetCategoryMappingFails
    \/ FetchDocuments
    \/ FetchDocumentsFails
    \/ FetchData
    \/ FetchDataFails
    \/ AttachReceipts
    \/ CategorizeTransactions
    \/ InsertRecords
    \/ InsertRecordsFails
    \/ Rerun

----------------------------------------------------------------------------
(* The remote data of the model *)

TxnId(i) == "t" \o ToString(i)

Field(id, value) == [field |-> id, value |-> value]

\* the lists of n raw receipt records drawn from choices, with the
\* source-assigned ids 1..n
RawDocuments(n, choices) ==
    {[i \in 1..n |-> [id |-> i, created_date |-> f[i].created_date,
                      custom_fields |-> f[i].custom_fields]] :
        f \in [1..n -> choices]}

\* the lists of m raw transaction records drawn from choices
RawTransactions(m, choices) == [1..m -> choices]

\* the list flat with the distinct ids t1, t2, ...
Numbered(flat) == [i \in 1..Len(flat) |-> [flat[i] EXCEPT !.id = TxnId(i)]]

\* the ways a list is cut in two (two accounts, two pages)
Splits(flat) ==
    {<<SubSeq(flat, 1, k), SubSeq(flat, k + 1, Len(flat))>> : k \in 0..Len(flat)}

Page(results) == [valid |-> TRUE, results |-> results]

AllGiven == [f \in Fields |-> TRUE]
NoneGiven == [f \in Fields |-> FALSE]

\* a row the destination worksheet holds before the first run
OldRow(id) == <<id, "Old", -100, 0, "", "">>

\* the first invocation of cli.run
Started ==
    /\ pc = "start" /\ run = 1 /\ prevDone = FALSE
    /\ errors = <<>> /\ exception = "" /\ clients = {} /\ steps = <<>>
    /\ mapping = [key \in {} |-> None]
    /\ documents = <<>> /\ accounts = <<>> /\ transactions = <<>> /\ records = <<>>

\* the first invocation when main is about to call attach_receipts
InMainBeforeAttach ==
    /\ pc = "attach_receipts" /\ run = 1 /\ prevDone = FALSE
    /\ cliArgs = AllGiven /\ errors = <<>> /\ exception = ""
    /\ clients = {"paperless", "simplefin", "google"}
    /\ steps = SubSeq(MainSteps, 1, 3)
    /\ IsListOfStrings(lookupSheet) /\ mapping = CategoryMapping(lookupSheet)
    /\ DocumentsError(paperless) = "" /\ documents = FetchedDocuments(paperless)
    /\ DataError(bank) = "" /\ accounts = FetchedAccounts(bank)
    /\ transactions = <<>> /\ records = <<>>

----------------------------------------------------------------------------
(* attach_receipts on every list of receipts and accounts of the bounds *)

\* receipts of day 0, 1 or 2 with no custom field, a total of zero or a
\* total of 42.50
MatchDocuments ==
    [created_date : {<<0>>, <<1>>, <<2>>},
     custom_fields : {<<>>,
                      <<Field(TOTAL, "USD0.00"), Field(CATEGORY, "Dining")>>,
                      <<Field(TOTAL, "USD42.50"), Field(CATEGORY, "Dining")>>}]

\* transactions of 42.50 or zero at midnight or noon of day 0 or midnight
\* of day 1
MatchTransactions ==
    [id : {"t"}, amount : {"-42.50", "0.00"}, payee : {"ACME CORP"},
     transacted_at : {0, 43200, SecondsPerDay}]

InitMatch ==
    /\ lookupSheet = <<<<"ACME CORP", "Groceries", "Acme">>>>
    /\ destSheet = <<OldRow("t0")>>
    /\ \E n \in 0..MaxRecords : \E m \in 0..(MaxRecords - n) :
        /\ \E docs \in RawDocuments(n, MatchDocuments) : paperless = <<Page(docs)>>
        /\ \E flat \in RawTransactions(m, MatchTransactions) :
           \E split \in Splits(Numbered(flat)) :
               bank = [valid |-> TRUE, accounts |-> split]
    /\ InMainBeforeAttach

NextMatch == AttachReceipts

SpecMatch == InitMatch /\ [][NextMatch]_vars

----------------------------------------------------------------------------
(* categorize_transactions on every lookup table of the bounds *)

LookupRows ==
    {<<"ACME CORP">>,
     <<"ACME CORP", "Groceries">>,
     <<"ACME CORP", "", "Acme">>,
     <<"ACME CORP", "Groceries", "Acme">>,
     <<"ACME CORP", "Groceries", "">>,
     <<"Acme", "Other">>}

\* receipts of 42.50 whose category field is missing, empty or Dining
CatDocuments ==
    [created_date : {<<0>>},
     custom_fields : {<<Field(TOTAL, "USD42.50")>>,
                      <<Field(TOTAL, "USD42.50"), Field(CATEGORY, "")>>,
                      <<Field(TOTAL, "USD42.50"), Field(CATEGORY, "Dining")>>}]

CatTransactions ==
    [id : {"t"}, amount : {"-42.50"}, payee : {"ACME CORP", "Acme"}, transacted_at : {0}]

InitCat ==
    /\ \E k \in 1..MaxLookupRows : lookupSheet \in [1..k -> LookupRows]
    /\ destSheet = <<OldRow("t0")>>
    /\ \E n \in 0..MaxRecords : \E m \in 0..(MaxRecords - n) :
        /\ \E docs \in RawDocuments(n, CatDocuments) : paperless = <<Page(docs)>>
        /\ \E flat \in RawTransactions(m, CatTransactions) :
               bank = [valid |-> TRUE, accounts |-> <<Numbered(flat)>>]
    /\ InMainBeforeAttach

NextCat == AttachReceipts \/ CategorizeTransactions

SpecCat == InitCat /\ [][NextCat]_vars

----------------------------------------------------------------------------
(* The whole run, started MaxRuns times on the same remote data *)

\* the subsequence of ids at the positions S
Pick(ids, S) ==
    [i \in 1..Cardinality(S) |->
        ids[CHOOSE k \in S : Cardinality({j \in S : j <= k}) = i]]

\* the ids the destination worksheet may hold before the first run
OldIds == <<"t1", "t2", "t0">>

\* a well-formed receipt and one whose date does not parse
RunDocuments ==
    {[created_date |-> <<0>>,
      custom_fields |-> <<Field(TOTAL, "USD42.50"), Field(CATEGORY, "Dining")>>],
     [created_date |-> <<>>, custom_fields |-> <<>>]}

\* well-formed transactions and one whose amount does not parse
RunTransactions ==
    {[id |-> "t1", amount |-> "-42.50", payee |-> "ACME CORP", transacted_at |-> 0],
     [id |-> "t3", amount |-> "-42.50", payee |-> "ACME CORP", transacted_at |-> 0],
     [id |-> "t3", amount |-> "-1.00", payee |-> "ACME CORP",
      transacted_at |-> SecondsPerDay],
     [id |-> "t4", amount |-> "n/a", payee |-> "ACME CORP", transacted_at |-> 0]}

\* the remote data of a run
RunRemote ==
    /\ lookupSheet \in {<<>>, <<<<"ACME CORP", "Groceries", "Acme">>>>}
    /\ \E S \in SUBSET (1..Len(OldIds)) :
          /\ Cardinality(S) <= MaxSheetRows
          /\ destSheet = Map(Pick(OldIds, S), OldRow)
    /\ \E n \in 0..MaxRecords : \E m \in 0..(MaxRecords - n) :
        /\ \E docs \in RawDocuments(n, RunDocuments) :
               paperless \in {<<Page(split[1]), Page(split[2])>> :
                                 split \in {sp \in Splits(docs) : sp[1] # <<>>}}
                             \cup {<<Page(docs)>>}
                             \cup (IF n = 0 THEN {<<[valid |-> FALSE, results |-> <<>>]>>}
                                   ELSE {})
        /\ \E flat \in RawTransactions(m, RunTransactions) :
               bank \in {[valid |-> TRUE, accounts |-> <<flat>>]}
                        \cup (IF m = 0 THEN {[valid |-> FALSE, accounts |-> <<>>]}
                              ELSE {})

Init ==
    /\ Started
    /\ cliArgs \in {AllGiven, NoneGiven}
    /\ RunRemote

Spec == Init /\ [][Next]_vars

----------------------------------------------------------------------------
(* Args(...) on every combination of given and missing credentials *)

InitArgs ==
    /\ Started
    /\ cliArgs \in [Fields -> BOOLEAN]
    /\ lookupSheet = <<<<"ACME CORP", "Groceries", "Acme">>>>
    /\ destSheet = <<OldRow("t1")>>
    /\ paperless = <<Page(<<>>)>>
    /\ bank = [valid |-> TRUE, accounts |-> <<<<CHOOSE t \in RunTransactions : t.id = "t1">>>>]

SpecArgs == InitArgs /\ [][Next]_vars

----------------------------------------------------------------------------
(* Claims about attach_receipts *)

Abs(x) == IF x < 0 THEN 0 - x ELSE x

Range(s) == {s[i] : i \in 1..Len(s)}

\* the receipts whose total equals the amount of t exactly
SameAmount(t) == {d \in Range(documents) : d.total = <<t.amount>>}

Distance(t, d) == Abs(DateOf(t.transacted_at) - d.date)

Attached == steps # <<>> /\ Last(steps) = "attach_receipts"

\* C1: the receipt attached to a transaction is at the least absolute day
\* distance among the receipts of the same amount.
C1_ClosestDate ==
    Attached =>
        \A i \in 1..Len(transactions) :
            LET t == transactions[i] IN
            t.receipt # <<>> =>
                \A d \in SameAmount(t) : Distance(t, t.receipt[1]) <= Distance(t, d)

\* C2: every returned transaction has receipt none or a supplied receipt
\* whose total equals its amount; a receipt without total is never attached.
C2_ReceiptMatchesAmount ==
    Attached =>
        \A i \in 1..Len(transactions) :
            LET t == transactions[i] IN
            t.receipt # <<>> =>
                /\ t.receipt[1] \in Range(documents)
                /\ t.receipt[1].total # <<>>
                /\ t.receipt[1].total = <<t.amount>>

C2_Witness ==
    /\ Attached
    /\ \E i \in 1..Len(transactions) : transactions[i].receipt # <<>>
    /\ \E j \in 1..Len(documents) :
          /\ documents[j].total = <<>>
          /\ \A i \in 1..Len(transactions) : transactions[i].receipt # <<documents[j]>>

\* the fields attach_receipts leaves alone
Identity(t) == <<t.id, t.amount, t.payee, t.transacted_at>>

Count(s, x) == Cardinality({i \in 1..Len(s) : Identity(s[i]) = x})

\* C3: the returned list holds exactly the transactions of all accounts,
\* each once, in non-increasing transacted_at order.
C3_AllTransactionsSorted ==
    Attached =>
        LET input == Flatten(accounts) IN
        /\ Len(transactions) = Len(input)
        /\ \A i \in 1..Len(input) :
              Count(transactions, Identity(input[i])) = Count(input, Identity(input[i]))
        /\ \A i \in 1..(Len(transactions) - 1) :
              transactions[i].transacted_at >= transactions[i + 1].transacted_at

C3_Witness ==
    /\ Attached
    /\ Len(accounts) = 2 /\ accounts[1] # <<>> /\ accounts[2] # <<>>
    /\ accounts[1][1].transacted_at < accounts[2][1].transacted_at
    /\ transactions[1].id = accounts[2][1].id

\* C10: a transaction is left without receipt only if no supplied receipt
\* has a total equal to its amount.
C10_UnmatchedOnlyWithoutCandidate ==
    Attached =>
        \A i \in 1..Len(transactions) :
            LET t == transactions[i] IN
            (t.receipt = <<>> /\ t.category = None) => SameAmount(t) = {}

----------------------------------------------------------------------------
(* Claims about categorize_transactions *)

Categorizing == pc = "categorize_transactions" /\ pc' # pc

\* C4: a transaction whose category is set (a non-empty string, the
\* category of the receipt matched to it) when categorize_transactions
\* starts has the same category when it ends.
C4_CategoryNotOverwritten ==
    [][Categorizing =>
        \A i \in 1..Len(transactions) :
            Truthy(transactions[i].category) =>
                transactions'[i].category = transactions[i].category]_vars

\* the transaction numbered i of the bank feed, as fetched
Raw(id) ==
    LET flat == Flatten(bank.accounts)
    IN  flat[CHOOSE i \in 1..Len(flat) : TxnId(i) = id]

Categorized == steps # <<>> /\ Last(steps) = "categorize_transactions"

C4_Witness ==
    /\ Categorized
    /\ "ACME CORP" \in DOMAIN mapping
    /\ mapping["ACME CORP"].category = "Groceries"
    /\ \E i \in 1..Len(transactions) :
          /\ Raw(transactions[i].id).payee = "ACME CORP"
          /\ transactions[i].receipt # <<>>
          /\ transactions[i].category = "Dining"

\* the last row of the lookup worksheet whose first cell is payee
RuleRow(payee) ==
    lookupSheet[CHOOSE i \in 1..Len(lookupSheet) :
                    /\ lookupSheet[i][1] = payee
                    /\ \A j \in (i + 1)..Len(lookupSheet) : lookupSheet[j][1] # payee]

HasRule(payee) == \E i \in 1..Len(lookupSheet) : lookupSheet[i][1] = payee

\* the rule provides its n-th cell
Provides(row, n) == Len(row) >= n /\ row[n] # ""

\* C5: a transaction without category whose raw payee has a lookup rule
\* gets the rule's category when the rule provides one and keeps none
\* otherwise (the rule is looked up by the raw payee only), and gets the
\* rule's display name as payee when the rule provides one, category or not.
C5_RuleApplied ==
    [][Categorizing =>
        \A i \in 1..Len(transactions) :
            LET before == transactions[i]
                after == transactions'[i]
            IN  (~Truthy(before.category) /\ HasRule(before.payee)) =>
                    LET rule == RuleRow(before.payee) IN
                    /\ Provides(rule, 2) => after.category = rule[2]
                    /\ ~Provides(rule, 2) => after.category = before.category
                    /\ Provides(rule, 3) => after.payee = rule[3]
                    /\ ~Provides(rule, 3) => after.payee = before.payee]_vars

C5_Witness ==
    /\ Categorized
    /\ HasRule("ACME CORP")
    /\ RuleRow("ACME CORP") = <<"ACME CORP", "Groceries", "Acme">>
    /\ \E i \in 1..Len(transactions) :
          /\ Raw(transactions[i].id).payee = "ACME CORP"
          /\ transactions[i].receipt = <<>>
          /\ transactions[i].category = "Groceries"
          /\ transactions[i].payee = "Acme"

----------------------------------------------------------------------------
(* Claims about the sheet writer and the whole run *)

Inserting == pc = "insert_records_to_google_sheet" /\ pc' # pc

\* the first cells of the rows
FirstColumn(rows) == [i \in 1..Len(rows) |-> rows[i][1]]

\* C6: unless the remote refuses the call, insert_records_to_google_sheet
\* appends a row for exactly the transactions whose id is in no first cell
\* of the destination worksheet, in the order they were passed.
C6_AppendsExactlyNew ==
    [][(Inserting /\ exception' # "APIError") =>
        LET old == {destSheet[i][1] : i \in 1..Len(destSheet)}
            new == SelectSeq(transactions, LAMBDA t : t.id \notin old)
        IN  /\ FirstColumn(records') = [i \in 1..Len(new) |-> new[i].id]
            /\ Len(destSheet') = Len(destSheet) + Len(new)
            /\ \A i \in 1..Len(new) : new[i].id \in Range(FirstColumn(destSheet'))]_vars

\* C7: when a run that follows a completed run completes, it appends no
\* row and leaves the set of rows of the destination worksheet as it was.
C7_SecondRunAppendsNothing ==
    [][(Inserting /\ pc' = "done" /\ prevDone) =>
        /\ records' = <<>>
        /\ Range(destSheet') = Range(destSheet)]_vars

C7_Witness ==
    /\ run = 2 /\ prevDone /\ pc = "done"
    /\ records = <<>>
    /\ \E i \in 1..Len(transactions) :
          /\ transactions[i].id = "t3"
          /\ "t3" \in Range(FirstColumn(destSheet))

IsPrefix(s, t) == Len(s) <= Len(t) /\ s = SubSeq(t, 1, Len(s))

\* C8: the steps of a run are taken in the order lookup table, receipts,
\* transactions, attach, categorize, write; only the write step changes
\* the destination worksheet; after a step fails no further step is taken.
C8_OrderAndSingleCommit ==
    /\ [](IsPrefix(steps, <<"get_category_mapping", "fetch_documents", "fetch_data",
                            "attach_receipts", "categorize_transactions",
                            "insert_records_to_google_sheet">>))
    /\ [][destSheet' # destSheet => Inserting /\ pc' = "done"]_vars
    /\ [][pc = "failed" => steps' \in {steps, <<>>}]_vars

C8_Witness ==
    /\ pc = "failed"
    /\ steps = <<"get_category_mapping", "fetch_documents", "fetch_data">>
    /\ exception = "InvalidOperation"
    /\ \E i \in 1..Len(Flatten(bank.accounts)) :
          Flatten(bank.accounts)[i].id \notin Range(FirstColumn(destSheet))

Groups ==
    [SimpleFin |-> {"simplefin_username", "simplefin_password", "simplefin_access_url"},
     Paperless |-> {"paperless_url", "paperless_token"},
     Google |-> {"google_credentials", "sheets_spreadsheet_id"}]

\* no credential of the group was given
Absent(g) == \A f \in Groups[g] : ~cliArgs[f]

\* C9: once start-up is over with a credential group absent, the run has
\* ended with Args.Error naming exactly the absent groups, no client was
\* constructed and no step of main was taken.
C9_MissingGroupRejected ==
    (pc # "start" /\ \E g \in DOMAIN Groups : Absent(g)) =>
        /\ pc = "exit"
        /\ exception = "Args.Error"
        /\ Range(errors) = {g \o " credentials are required" : g \in {h \in DOMAIN Groups : Absent(h)}}
        /\ clients = {}
        /\ steps = <<>>

C9_Witness ==
    /\ pc = "exit"
    /\ Absent("Paperless") /\ Absent("Google") /\ ~Absent("SimpleFin")
    /\ ~cliArgs["simplefin_password"]
    /\ Len(errors) = 2

----------------------------------------------------------------------------
(* Claims about ties in attach_receipts and about empty worksheets *)

\* the position of the receipt d in the list supplied to attach_receipts
Position(d) == CHOOSE j \in 1..Len(documents) : documents[j] = d

\* C11: no receipt of the same amount at the same day distance as the
\* attached receipt was supplied before the attached one.
C11_TieGoesToFirstSupplied ==
    Attached =>
        \A i \in 1..Len(transactions) :
            LET t == transactions[i] IN
            t.receipt # <<>> =>
                \A d \in SameAmount(t) :
                    Distance(t, d) = Distance(t, t.receipt[1]) =>
                        Position(t.receipt[1]) <= Position(d)

GettingMapping == pc = "get_category_mapping" /\ pc' # pc

\* C12: when the read of the destination worksheet returns no row, the
\* insert step fails its assertion, builds no records and appends nothing;
\* when the read of the lookup worksheet returns no row,
\* get_category_mapping fails its assertion and no receipt or transaction
\* is fetched in that run.
C12_EmptySheetFails ==
    /\ [][(Inserting /\ destSheet = <<>> /\ exception' # "APIError") =>
            /\ pc' = "failed"
            /\ exception' = "AssertionError"
            /\ records' = <<>>
            /\ destSheet' = <<>>]_vars
    /\ [][(GettingMapping /\ lookupSheet = <<>> /\ exception' # "APIError") =>
            /\ pc' = "failed"
            /\ exception' = "AssertionError"]_vars
    /\ [](lookupSheet = <<>> =>
            /\ IsPrefix(steps, <<"get_category_mapping">>)
            /\ documents = <<>>
            /\ accounts = <<>>)

C12_Witness ==
    /\ pc = "failed"
    /\ exception = "AssertionError"
    /\ Last(steps) = "insert_records_to_google_sheet"
    /\ destSheet = <<>>
    /\ transactions # <<>>

\* the same for the lookup worksheet
C12_WitnessLookup ==
    /\ pc = "failed"
    /\ exception = "AssertionError"
    /\ steps = <<"get_category_mapping">>
    /\ lookupSheet = <<>>
    /\ Flatten(bank.accounts) # <<>>

====
